---- MODULE Spec2Model ----
(***************************************************************************)
(* Model of hidapipp, the C++11 RAII wrappers around HIDAPI               *)
(* (src/hidapipp/Device.h, HandleError.h, Enumeration.h, Library.h) and   *)
(* of the HDK-Logger demo program.                                         *)
(*                                                                         *)
(* Spec    : ownership of native device handles by UniqueDevice and       *)
(*           SharedDevice (construction, copy, move, destruction).        *)
(* SpecIO  : the read / feature-report operations of DeviceBase and the   *)
(*           error translation of HandleError.h, run against a simulated  *)
(*           native behaviour.                                             *)
(***************************************************************************)
EXTENDS Integers, Sequences, FiniteSets, TLC

(***************************************************************************)
(* Bounds of the model.                                                    *)
(***************************************************************************)
MaxHandles == 2      \* native handles hid_open / hid_open_path can hand out
MaxUSlots == 2       \* UniqueDevice objects that can exist at once
MaxSSlots == 2       \* SharedDevice objects that can exist at once
MaxLen == 2          \* largest maxLength passed to read / get_feature_report

(***************************************************************************)
(* Program constants.                                                      *)
(***************************************************************************)
NULL == 0            \* nullptr, as a hid_device *
VID_HDK == 5426      \* 0x1532
PID_HDK == 2816      \* 0x0b00
VID_OTHER == 8738    \* 0x2222, a vendor id nothing attached answers to
PID_OTHER == 13107   \* 0x3333

Handles == 1..MaxHandles
USlots == 1..MaxUSlots
SSlots == 1..MaxSSlots
CBlocks == 1..MaxSSlots          \* shared_ptr control blocks
VIDs == {VID_HDK, VID_OTHER}
PIDs == {PID_HDK, PID_OTHER}
HDK_PATH == "/dev/hidraw0"
Paths == {HDK_PATH, "/dev/nonexistent"}

VARIABLES
    uniq,        \* UniqueDevice objects: [alive, dev_, moved (has been moved from)]
    shr,         \* SharedDevice objects: [alive, ptr, cb] (dev_ = stored pointer + control block)
    ctrl,        \* shared_ptr control blocks: [use_count, owned]
    issued,      \* number of native handles handed out so far by hid_open*
    openedBy,    \* per native handle: which wrapper type's constructor opened it
    closeCount,  \* per pointer value (NULL included): number of hid_close calls on it
    lastOp,      \* observation of the last wrapper operation
    variant,     \* the ownership variant the client code instantiates
    build,       \* build configuration: [ndebug, use_fprintf]
    scenario,    \* SpecIO: arguments and simulated native behaviour of the next call
    out,         \* SpecIO: outcome of each API under the current scenario
    outL,        \* SpecIO: outcome of each call on the DeviceBase of HDK-Logger.cpp
    pc,          \* position of the client program (SpecScope, SpecMain)
    lib,         \* the Library guard and the hid_init / hid_exit calls made
    world,       \* the HID devices attached: descriptors in enumeration order
    en,          \* the Enumeration object and the native chain it holds
    prog         \* locals of the client program, the exception in flight, the native calls

vars == <<uniq, shr, ctrl, issued, openedBy, closeCount, lastOp, variant, build, scenario, out,
          outL, pc, lib, world, en, prog>>

\* The state of a client program with scoped objects.
progVars == <<pc, lib, world, en, prog>>

\* Before any Library or Enumeration has been constructed.
\* Library: whether a guard is alive, the constructions attempted, the
\* hid_init calls, those that returned 0, the hid_exit calls, and the last
\* hid_init result.
NoLibrary == [alive |-> FALSE, ctors |-> 0, inits |-> 0, oks |-> 0, exits |-> 0, rc |-> 0]
\* Enumeration e: devs_ (the head of a chain, NULL when empty) and the
\* arguments hid_enumerate received; with it the native side of every
\* Enumeration: the nodes hid_enumerate has allocated, node p at index p, and
\* the pointers handed to hid_free_enumeration.
NoEnumeration == [alive |-> FALSE, devs_ |-> NULL, chain |-> <<>>, args |-> <<>>, freed |-> <<>>]
\* A second Enumeration, e2, of the scope: alive or not, and its devs_.
NoEnumeration2 == [alive |-> FALSE, devs_ |-> NULL]
\* Locals: the filter the client asked for, the cursor of the range-for, the
\* descriptors its body has seen, hdk_path, the exception in flight and the
\* operation that threw it, how the scope was left, the native calls, and e2.
NoLocals == [filter |-> <<>>, it |-> NULL, yielded |-> <<>>, hdk_path |-> "", exc |-> "",
             raisedBy |-> "", ret |-> "", calls |-> <<>>, e2 |-> NoEnumeration2]

\* No client program is running.
NoProgram ==
    /\ pc = "idle"
    /\ lib = NoLibrary
    /\ world = <<>>
    /\ en = NoEnumeration
    /\ prog = NoLocals

(***************************************************************************)
(* Native side (HIDAPI), as far as the wrappers observe it.                *)
(***************************************************************************)
\* hid_open(vid, pid, serial): NULL for a pair nothing attached answers to;
\* for the attached device a fresh handle, or NULL (device in use, no
\* permission, handles exhausted).
hid_open_results(vid, pid) ==
    IF vid = VID_HDK /\ pid = PID_HDK /\ issued < MaxHandles
    THEN {NULL, issued + 1}
    ELSE {NULL}

\* hid_open_path(path): likewise, by path.
hid_open_path_results(path) ==
    IF path = HDK_PATH /\ issued < MaxHandles
    THEN {NULL, issued + 1}
    ELSE {NULL}

\* The hid_close calls of one operation, added to the per-pointer counters.
RecordCloses(closes) ==
    [h \in 0..MaxHandles |->
        closeCount[h] + Cardinality({i \in 1..Len(closes) : closes[i] = h})]

(***************************************************************************)
(* detail::DeviceDeleter and the two smart pointers.                       *)
(***************************************************************************)
\* mutant: a deleter that never closes
DeviceDeleter_Noop(dev) == <<>>

\* mutant: a deleter without the null check
DeviceDeleter_NoNullCheck(dev) == <<dev>>

\* DeviceDeleter::operator()(hid_device *dev): the hid_close calls it makes.
DeviceDeleter(dev) == IF dev # NULL THEN <<dev>> ELSE <<>>

\* mutant: a unique_ptr that drops the pointer it held without the deleter
DeviceUniquePtr_release_Leak(p) == <<>>

\* std::unique_ptr<hid_device, DeviceDeleter>: destructor and reset() invoke
\* the deleter only on a non-null pointer.
DeviceUniquePtr_release(p) == IF p # NULL THEN DeviceDeleter(p) ELSE <<>>

\* mutant: the validity check inverted
operator_bool_Inverted(p) == p = NULL

\* DeviceBase::operator bool(): nullptr != get_()
operator_bool(p) == p # NULL

\* UniqueDevice::get() / SharedDevice::get(): the stored pointer.
UniqueDevice_get(s) == uniq[s].dev_
SharedDevice_get(s) == shr[s].ptr

\* mutant: a "move" that copies the pointer and leaves the source as it was
UniqueMove_Copying(src) == [dst |-> src, src |-> src]

\* std::move of a DeviceUniquePtr into another: the destination takes the
\* pointer, the source is left null.
UniqueMove(src) == [dst |-> src, src |-> NULL]

\* What an observer sees of one wrapper operation: the operation, the objects
\* it acted on (a, b), the arguments of a native open and the pointer it
\* returned, the pointer the destroyed or overwritten object owned before,
\* whether that object was the last owner / a moved-from object, the hid_close
\* calls made, and whether the operation left by an exception (no constructor,
\* assignment or destructor of Device.h has a throw statement).
NoOp == [op |-> "init", a |-> 0, b |-> 0, arg |-> <<>>, native |-> NULL, owned |-> NULL,
         last |-> FALSE, moved |-> FALSE, closes |-> <<>>, raised |-> FALSE]

Op(op, a, b, native, owned, last, closes) ==
    [NoOp EXCEPT !.op = op, !.a = a, !.b = b, !.native = native, !.owned = owned,
                 !.last = last, !.closes = closes]

DeadU == [alive |-> FALSE, dev_ |-> NULL, moved |-> FALSE]
DeadS == [alive |-> FALSE, ptr |-> NULL, cb |-> 0]
FreeCB == [use_count |-> 0, owned |-> NULL]

\* Issue of a native handle by a constructor of wrapper type `by`.
Issue(r, by) ==
    /\ issued' = IF r # NULL THEN r ELSE issued
    /\ openedBy' = IF r # NULL THEN [openedBy EXCEPT ![r] = by] ELSE openedBy

(***************************************************************************)
(* UniqueDevice                                                            *)
(***************************************************************************)
\* UniqueDevice(): empty dev_.
UniqueDefault(s) ==
    /\ variant = "unique"
    /\ ~uniq[s].alive
    /\ uniq' = [uniq EXCEPT ![s] = [alive |-> TRUE, dev_ |-> NULL, moved |-> FALSE]]
    /\ lastOp' = Op("UniqueDefault", s, 0, NULL, NULL, FALSE, <<>>)
    /\ UNCHANGED <<shr, ctrl, issued, openedBy, closeCount>>
    /\ UNCHANGED <<variant, build, scenario, out, outL, progVars>>

\* UniqueDevice(vid, pid, serial): dev_(hid_open(vid, pid, serial)).
UniqueOpen(s) ==
    /\ variant = "unique"
    /\ ~uniq[s].alive
    /\ \E vid \in VIDs, pid \in PIDs : \E r \in hid_open_results(vid, pid) :
        /\ uniq' = [uniq EXCEPT ![s] = [alive |-> TRUE, dev_ |-> r, moved |-> FALSE]]
        /\ Issue(r, "unique")
        /\ lastOp' = [Op("UniqueOpen", s, 0, r, NULL, FALSE, <<>>) EXCEPT !.arg = <<vid, pid>>]
    /\ UNCHANGED <<shr, ctrl, closeCount>>
    /\ UNCHANGED <<variant, build, scenario, out, outL, progVars>>

\* UniqueDevice(path): dev_(hid_open_path(path)).
UniqueOpenPath(s) ==
    /\ variant = "unique"
    /\ ~uniq[s].alive
    /\ \E path \in Paths : \E r \in hid_open_path_results(path) :
        /\ uniq' = [uniq EXCEPT ![s] = [alive |-> TRUE, dev_ |-> r, moved |-> FALSE]]
        /\ Issue(r, "unique")
        /\ lastOp' = [Op("UniqueOpenPath", s, 0, r, NULL, FALSE, <<>>) EXCEPT !.arg = <<path>>]
    /\ UNCHANGED <<shr, ctrl, closeCount>>
    /\ UNCHANGED <<variant, build, scenario, out, outL, progVars>>

\* UniqueDevice(UniqueDevice &&other): dev_(std::move(other.dev_)).
UniqueMoveConstruct(src, dst) ==
    /\ variant = "unique"
    /\ uniq[src].alive /\ ~uniq[dst].alive
    /\ LET m == UniqueMove(uniq[src].dev_) IN
        /\ uniq' = [uniq EXCEPT ![src] = [alive |-> TRUE, dev_ |-> m.src, moved |-> TRUE],
                                ![dst] = [alive |-> TRUE, dev_ |-> m.dst, moved |-> FALSE]]
        /\ lastOp' = Op("UniqueMoveConstruct", src, dst, NULL, uniq[src].dev_, FALSE, <<>>)
    /\ UNCHANGED <<shr, ctrl, issued, openedBy, closeCount>>
    /\ UNCHANGED <<variant, build, scenario, out, outL, progVars>>

\* UniqueDevice::operator=(UniqueDevice &&other): self-assignment returns at
\* once; otherwise dev_ = std::move(other.dev_), which resets dev_ and so
\* hands the pointer it held before to the deleter.
UniqueMoveAssign(src, dst) ==
    /\ variant = "unique"
    /\ uniq[src].alive /\ uniq[dst].alive
    /\ IF src = dst
       THEN /\ lastOp' = Op("UniqueMoveAssign", src, dst, NULL, uniq[dst].dev_, FALSE, <<>>)
            /\ UNCHANGED <<uniq, closeCount>>
       ELSE LET m == UniqueMove(uniq[src].dev_)
                closes == DeviceUniquePtr_release(uniq[dst].dev_) IN
            /\ uniq' = [uniq EXCEPT ![src] = [alive |-> TRUE, dev_ |-> m.src, moved |-> TRUE],
                                    ![dst] = [alive |-> TRUE, dev_ |-> m.dst, moved |-> FALSE]]
            /\ closeCount' = RecordCloses(closes)
            /\ lastOp' = Op("UniqueMoveAssign", src, dst, NULL, uniq[dst].dev_, FALSE, closes)
    /\ UNCHANGED <<shr, ctrl, issued, openedBy>>
    /\ UNCHANGED <<variant, build, scenario, out, outL, progVars>>

\* ~UniqueDevice(): destroys dev_.
UniqueDestroy(s) ==
    /\ variant = "unique"
    /\ uniq[s].alive
    /\ LET closes == DeviceUniquePtr_release(uniq[s].dev_) IN
        /\ uniq' = [uniq EXCEPT ![s] = DeadU]
        /\ closeCount' = RecordCloses(closes)
        /\ lastOp' = [Op("UniqueDestroy", s, 0, NULL, uniq[s].dev_, TRUE, closes)
                          EXCEPT !.moved = uniq[s].moved]
    /\ UNCHANGED <<shr, ctrl, issued, openedBy>>
    /\ UNCHANGED <<variant, build, scenario, out, outL, progVars>>

(***************************************************************************)
(* SharedDevice                                                            *)
(***************************************************************************)
\* mutant: the deleter runs at every release, not only at the last one
SharedPtr_release_Eager(cb) ==
    [cb |-> IF cb.use_count = 1 THEN [use_count |-> 0, owned |-> NULL]
            ELSE [cb EXCEPT !.use_count = @ - 1],
     closes |-> DeviceDeleter(cb.owned),
     last |-> cb.use_count = 1]

\* std::shared_ptr giving up one owner of control block cb: the count drops
\* and the owner that brings it to zero runs the stored deleter on the owned
\* pointer (null or not: a shared_ptr built from (p, d) calls d(p) always).
SharedPtr_release(cb) ==
    IF cb.use_count = 1
    THEN [cb |-> [use_count |-> 0, owned |-> NULL],
          closes |-> DeviceDeleter(cb.owned), last |-> TRUE]
    ELSE [cb |-> [cb EXCEPT !.use_count = @ - 1], closes |-> <<>>, last |-> FALSE]

\* mutant: a copy that shares the control block but forgets the stored pointer
SharedCopy_DropsPtr(src) == [ptr |-> NULL, cb |-> src.cb]

\* Copy of a std::shared_ptr: the stored pointer and the control block.
SharedCopy(src) == [ptr |-> src.ptr, cb |-> src.cb]

FreeBlock == CHOOSE c \in CBlocks : ctrl[c].use_count = 0 /\ \A d \in CBlocks : ctrl[d].use_count = 0 => c <= d

\* The native handle a SharedDevice owns (through its control block).
SharedOwned(s) == IF shr[s].cb = 0 THEN NULL ELSE ctrl[shr[s].cb].owned

\* SharedDevice(): empty dev_, no control block.
SharedDefault(s) ==
    /\ variant = "shared"
    /\ ~shr[s].alive
    /\ shr' = [shr EXCEPT ![s] = [alive |-> TRUE, ptr |-> NULL, cb |-> 0]]
    /\ lastOp' = Op("SharedDefault", s, 0, NULL, NULL, FALSE, <<>>)
    /\ UNCHANGED <<uniq, ctrl, issued, openedBy, closeCount>>
    /\ UNCHANGED <<variant, build, scenario, out, outL, progVars>>

\* dev_(p, detail::DeviceDeleter()): a control block owning p, p null or not.
SharedAdopt(s, r) ==
    /\ shr' = [shr EXCEPT ![s] = [alive |-> TRUE, ptr |-> r, cb |-> FreeBlock]]
    /\ ctrl' = [ctrl EXCEPT ![FreeBlock] = [use_count |-> 1, owned |-> r]]
    /\ Issue(r, "shared")

\* SharedDevice(vid, pid, serial): dev_(hid_open(vid, pid, serial), DeviceDeleter()).
SharedOpen(s) ==
    /\ variant = "shared"
    /\ ~shr[s].alive
    /\ \E vid \in VIDs, pid \in PIDs : \E r \in hid_open_results(vid, pid) :
        /\ SharedAdopt(s, r)
        /\ lastOp' = [Op("SharedOpen", s, 0, r, NULL, FALSE, <<>>) EXCEPT !.arg = <<vid, pid>>]
    /\ UNCHANGED <<uniq, closeCount>>
    /\ UNCHANGED <<variant, build, scenario, out, outL, progVars>>

\* SharedDevice(path): dev_(hid_open_path(path), DeviceDeleter()).
SharedOpenPath(s) ==
    /\ variant = "shared"
    /\ ~shr[s].alive
    /\ \E path \in Paths : \E r \in hid_open_path_results(path) :
        /\ SharedAdopt(s, r)
        /\ lastOp' = [Op("SharedOpenPath", s, 0, r, NULL, FALSE, <<>>) EXCEPT !.arg = <<path>>]
    /\ UNCHANGED <<uniq, closeCount>>
    /\ UNCHANGED <<variant, build, scenario, out, outL, progVars>>

\* Implicit copy constructor: dev_(other.dev_).
SharedCopyConstruct(src, dst) ==
    /\ variant = "shared"
    /\ shr[src].alive /\ ~shr[dst].alive
    /\ LET c == SharedCopy(shr[src]) IN
        /\ shr' = [shr EXCEPT ![dst] = [alive |-> TRUE, ptr |-> c.ptr, cb |-> c.cb]]
        /\ ctrl' = IF c.cb = 0 THEN ctrl ELSE [ctrl EXCEPT ![c.cb].use_count = @ + 1]
        /\ lastOp' = Op("SharedCopyConstruct", src, dst, NULL, SharedOwned(src), FALSE, <<>>)
    /\ UNCHANGED <<uniq, issued, openedBy, closeCount>>
    /\ UNCHANGED <<variant, build, scenario, out, outL, progVars>>

\* Implicit copy assignment: dev_ = other.dev_ (the source gains an owner,
\* then the destination's previous control block loses one).
SharedCopyAssign(src, dst) ==
    /\ variant = "shared"
    /\ shr[src].alive /\ shr[dst].alive
    /\ LET c == SharedCopy(shr[src])
           old == shr[dst].cb
           ctrl1 == IF c.cb = 0 THEN ctrl ELSE [ctrl EXCEPT ![c.cb].use_count = @ + 1]
           rel == IF old = 0 THEN [cb |-> FreeCB, closes |-> <<>>, last |-> FALSE]
                  ELSE SharedPtr_release(ctrl1[old]) IN
        /\ shr' = [shr EXCEPT ![dst] = [alive |-> TRUE, ptr |-> c.ptr, cb |-> c.cb]]
        /\ ctrl' = IF old = 0 THEN ctrl1 ELSE [ctrl1 EXCEPT ![old] = rel.cb]
        /\ closeCount' = RecordCloses(rel.closes)
        /\ lastOp' = Op("SharedCopyAssign", src, dst, NULL, SharedOwned(dst), rel.last, rel.closes)
    /\ UNCHANGED <<uniq, issued, openedBy>>
    /\ UNCHANGED <<variant, build, scenario, out, outL, progVars>>

\* Implicit move constructor: dev_(std::move(other.dev_)); the source is left empty.
SharedMoveConstruct(src, dst) ==
    /\ variant = "shared"
    /\ shr[src].alive /\ ~shr[dst].alive
    /\ shr' = [shr EXCEPT ![dst] = shr[src],
                          ![src] = [alive |-> TRUE, ptr |-> NULL, cb |-> 0]]
    /\ lastOp' = Op("SharedMoveConstruct", src, dst, NULL, SharedOwned(src), FALSE, <<>>)
    /\ UNCHANGED <<uniq, ctrl, issued, openedBy, closeCount>>
    /\ UNCHANGED <<variant, build, scenario, out, outL, progVars>>

\* Implicit move assignment: dev_ = std::move(other.dev_). The destination's
\* previous control block loses an owner, the destination takes the pointer
\* and the control block of the source, and the source is left empty; a move
\* assignment of an object to itself leaves it as it was.
SharedMoveAssign(src, dst) ==
    /\ variant = "shared"
    /\ shr[src].alive /\ shr[dst].alive
    /\ IF src = dst
       THEN /\ lastOp' = Op("SharedMoveAssign", src, dst, NULL, SharedOwned(dst), FALSE, <<>>)
            /\ UNCHANGED <<shr, ctrl, closeCount>>
       ELSE LET old == shr[dst].cb
                rel == IF old = 0 THEN [cb |-> FreeCB, closes |-> <<>>, last |-> FALSE]
                       ELSE SharedPtr_release(ctrl[old]) IN
            /\ shr' = [shr EXCEPT ![dst] = shr[src],
                                  ![src] = [alive |-> TRUE, ptr |-> NULL, cb |-> 0]]
            /\ ctrl' = IF old = 0 THEN ctrl ELSE [ctrl EXCEPT ![old] = rel.cb]
            /\ closeCount' = RecordCloses(rel.closes)
            /\ lastOp' = Op("SharedMoveAssign", src, dst, NULL, SharedOwned(dst), rel.last,
                            rel.closes)
    /\ UNCHANGED <<uniq, issued, openedBy>>
    /\ UNCHANGED <<variant, build, scenario, out, outL, progVars>>

\* ~SharedDevice(): destroys dev_.
SharedDestroy(s) ==
    /\ variant = "shared"
    /\ shr[s].alive
    /\ LET old == shr[s].cb
           rel == IF old = 0 THEN [cb |-> FreeCB, closes |-> <<>>, last |-> FALSE]
                  ELSE SharedPtr_release(ctrl[old]) IN
        /\ shr' = [shr EXCEPT ![s] = DeadS]
        /\ ctrl' = IF old = 0 THEN ctrl ELSE [ctrl EXCEPT ![old] = rel.cb]
        /\ closeCount' = RecordCloses(rel.closes)
        /\ lastOp' = Op("SharedDestroy", s, 0, NULL, SharedOwned(s), rel.last, rel.closes)
    /\ UNCHANGED <<uniq, issued, openedBy>>
    /\ UNCHANGED <<variant, build, scenario, out, outL, progVars>>

(***************************************************************************)
(* DeviceBase: read / feature report, and HandleError.h.                   *)
(***************************************************************************)
NULLMSG == "nullptr"                       \* a null const wchar_t *
Msgs == {"timeout", "device disconnected"} \* messages hid_error can supply
Bytes == {17, 34}                          \* byte values a device sends
ReportIds == {5}
NegResults == {-1, -2}                     \* failure results of a native call
\* The members of DeviceBase a program can call. read_throwing (declared to
\* return DataResult, returns a DataVector) and the non-throwing
\* get_feature_report (declared to return DataVector, returns a DataResult)
\* are ill-formed once instantiated: no program calls them.
Apis == {"read", "get_feature_report_throwing"}

WHAT_ERROR == "hidapi error"
WHAT_NO_MESSAGE == "hidapi error, but could not retrieve HIDAPI error message - should not happen"

Zeros(n) == [i \in 1..n |-> 0]

\* DataVector(n): n value-initialised bytes.
DataVector(n) == Zeros(n)

\* mutant: the buffer keeps its requested size
resize_Noop(data, n) == data

\* std::vector::resize(n), for n >= 0: truncation or zero extension.
resize(data, n) ==
    IF n <= Len(data) THEN SubSeq(data, 1, n) ELSE data \o Zeros(n - Len(data))

\* hid_read(dev, data, length) under scenario sc: the result, and the buffer
\* with the bytes received written at its start.
hid_read(sc, data) ==
    [result |-> sc.result,
     data |-> IF sc.result > 0
              THEN sc.payload \o SubSeq(data, sc.result + 1, Len(data))
              ELSE data]

\* hid_getFeatureReport(dev, data, length) under scenario sc: the report id
\* stays in the first byte, the report follows it.
hid_getFeatureReport(sc, data) ==
    [result |-> sc.result,
     data |-> IF sc.result > 0
              THEN <<data[1]>> \o Tail(sc.payload) \o SubSeq(data, sc.result + 1, Len(data))
              ELSE data]

\* hid_error(dev) under scenario sc.
hid_error(sc) == sc.err

\* Outcome of one API call: how it ended, the buffer and error returned, the
\* text of the exception raised, what went to stderr, and the number of
\* hid_error calls made.
NotCalled == [status |-> "none", data |-> <<>>, err |-> NULLMSG, what |-> "",
              stderr |-> <<>>, errCalls |-> 0]

\* detail::handle_error(dev): the message of hid_error; a null message trips
\* the assert (abort) unless built with NDEBUG, and is then returned as is.
handle_error(sc) ==
    LET errMsg == hid_error(sc) IN
    IF errMsg = NULLMSG
    THEN [aborted |-> ~build.ndebug, msg |-> errMsg]
    ELSE [aborted |-> FALSE, msg |-> errMsg]

\* mutant: the two branches exchanged
handle_error_throwing_Swapped(errMsg) ==
    IF errMsg = NULLMSG
    THEN [what |-> WHAT_ERROR,
          stderr |-> IF build.use_fprintf THEN <<"hidapi error: %ls", errMsg>> ELSE <<>>]
    ELSE [what |-> WHAT_NO_MESSAGE,
          stderr |-> IF build.use_fprintf
                     THEN <<"hidapi error, but could not retrieve HIDAPI error message">>
                     ELSE <<>>]

\* detail::handle_error_throwing(errMsg): always throws std::runtime_error; the
\* message itself only goes to stderr, under HIDAPIPP_USE_FPRINTF.
handle_error_throwing(errMsg) ==
    IF errMsg # NULLMSG
    THEN [what |-> WHAT_ERROR,
          stderr |-> IF build.use_fprintf THEN <<"hidapi error: %ls", errMsg>> ELSE <<>>]
    ELSE [what |-> WHAT_NO_MESSAGE,
          stderr |-> IF build.use_fprintf
                     THEN <<"hidapi error, but could not retrieve HIDAPI error message">>
                     ELSE <<>>]

\* mutant: a zero-byte result is taken for a failure
handle_buffer_base_ZeroIsError(sc, data, callResult) ==
    IF callResult <= 0
    THEN LET e == handle_error(sc) IN
         [aborted |-> e.aborted, ret |-> e.msg, data |-> data, errCalls |-> 1]
    ELSE [aborted |-> FALSE, ret |-> NULLMSG, data |-> resize(data, callResult),
          errCalls |-> 0]

\* DeviceBase::handle_buffer_base(data, callResult)
handle_buffer_base(sc, data, callResult) ==
    IF callResult < 0
    THEN LET e == handle_error(sc) IN
         [aborted |-> e.aborted, ret |-> e.msg, data |-> data, errCalls |-> 1]
    ELSE [aborted |-> FALSE, ret |-> NULLMSG, data |-> resize(data, callResult),
          errCalls |-> 0]

Aborted(b) == [NotCalled EXCEPT !.status = "aborted", !.errCalls = b.errCalls]

\* DeviceBase::handle_buffer(data, callResult)
handle_buffer(sc, data, callResult) ==
    LET b == handle_buffer_base(sc, data, callResult) IN
    IF b.aborted THEN Aborted(b)
    ELSE [NotCalled EXCEPT !.status = "returned",
                           !.data = IF callResult < 0 THEN <<>> ELSE b.data,
                           !.err = b.ret,
                           !.errCalls = b.errCalls]

\* DeviceBase::handle_buffer_and_throw(data, callResult)
handle_buffer_and_throw(sc, data, callResult) ==
    LET b == handle_buffer_base(sc, data, callResult) IN
    IF b.aborted THEN Aborted(b)
    ELSE IF callResult < 0
    THEN LET t == handle_error_throwing(b.ret) IN
         [NotCalled EXCEPT !.status = "raised", !.what = t.what, !.stderr = t.stderr,
                           !.errCalls = b.errCalls]
    ELSE [NotCalled EXCEPT !.status = "returned", !.data = b.data,
                           !.errCalls = b.errCalls]

\* had_error(result): nullptr != result.second
had_error(o) == o.err # NULLMSG

\* DeviceBase::read(maxLength)
read(sc) ==
    LET r == hid_read(sc, DataVector(sc.maxLength)) IN
    handle_buffer(sc, r.data, r.result)

\* data = DataVector(maxLength + 1); data[0] = reportId
FeatureBuffer(sc) == [DataVector(sc.maxLength + 1) EXCEPT ![1] = sc.reportId]

\* DeviceBase::get_feature_report_throwing(reportId, maxLength)
get_feature_report_throwing(sc) ==
    LET r == hid_getFeatureReport(sc, FeatureBuffer(sc)) IN
    handle_buffer_and_throw(sc, r.data, r.result)

(***************************************************************************)
(* The DeviceBase that HDK-Logger.cpp carries itself (an earlier state of  *)
(* the wrappers): its read and get_feature_report throw.                   *)
(***************************************************************************)
LoggerApis == {"read", "get_feature_report"}

\* Width of size_t. A size_t value is written as its SIZE_BITS / 16 digits
\* to the base 2^16, the most significant first, so that all 64 bits are
\* kept: <<65535, 65535, 65535, 65535>> is 2^64 - 1.
SIZE_BITS == 64
LIMB == 2 ^ 16
LIMBS == SIZE_BITS \div 16

\* Conversion of a (32-bit) int to size_t: the value modulo 2^64, that is,
\* the two low digits of the int and its sign extended above them.
ToSizeT(n) ==
    [k \in 1..LIMBS |->
        IF k = LIMBS THEN n % LIMB
        ELSE IF k = LIMBS - 1 THEN (n \div LIMB) % LIMB
        ELSE IF n < 0 THEN LIMB - 1 ELSE 0]

\* std::vector<unsigned char>::max_size(): 2^63 - 1.
MAX_SIZE == [k \in 1..LIMBS |-> IF k = 1 THEN LIMB \div 2 - 1 ELSE LIMB - 1]

\* a > b, for size_t values.
SizeGreater(a, b) ==
    \E k \in 1..LIMBS : a[k] > b[k] /\ \A j \in 1..(k - 1) : a[j] = b[j]

\* The number a size_t value below 2^31 stands for.
SizeValue(a) == a[LIMBS - 1] * LIMB + a[LIMBS]

WHAT_LENGTH == "vector::_M_default_append"
STDERR_NO_ERROR == "in hidapi::detail::handle_error but no error?"

\* Outcome of one call: as above, and the int handed to ret.resize, if any.
LoggerNotCalled == [status |-> "none", data |-> <<>>, what |-> "", stderr |-> <<>>,
                    resizeArg |-> <<>>]

\* hidapi::detail::handle_error(dev) of HDK-Logger.cpp: a null message is
\* reported on stderr and the function returns; otherwise it throws.
Logger_handle_error(sc) ==
    LET errMsg == hid_error(sc) IN
    IF errMsg = NULLMSG
    THEN [raised |-> FALSE, what |-> "", stderr |-> <<STDERR_NO_ERROR>>]
    ELSE [raised |-> TRUE, what |-> WHAT_ERROR, stderr |-> <<"hidapi error: %ls", errMsg>>]

\* ret.resize(callResult): the int converts to size_t; a length above
\* max_size() raises std::length_error.
Logger_resize(data, callResult) ==
    IF SizeGreater(ToSizeT(callResult), MAX_SIZE)
    THEN [raised |-> TRUE, what |-> WHAT_LENGTH, data |-> data]
    ELSE [raised |-> FALSE, what |-> "", data |-> resize(data, SizeValue(ToSizeT(callResult)))]

\* DeviceBase::handle_buffer_and_error(ret, callResult) of HDK-Logger.cpp
handle_buffer_and_error(sc, data, callResult) ==
    LET e == IF callResult < 0 THEN Logger_handle_error(sc)
                               ELSE [raised |-> FALSE, what |-> "", stderr |-> <<>>] IN
    IF e.raised
    THEN [LoggerNotCalled EXCEPT !.status = "raised", !.what = e.what, !.stderr = e.stderr]
    ELSE LET r == Logger_resize(data, callResult) IN
         [status |-> IF r.raised THEN "raised" ELSE "returned",
          data |-> IF r.raised THEN <<>> ELSE r.data,
          what |-> r.what,
          stderr |-> e.stderr,
          resizeArg |-> <<callResult>>]

\* DeviceBase::read(maxLength) of HDK-Logger.cpp
Logger_read(sc) ==
    LET r == hid_read(sc, DataVector(sc.maxLength)) IN
    handle_buffer_and_error(sc, r.data, r.result)

\* DeviceBase::get_feature_report(reportId, maxLength) of HDK-Logger.cpp
Logger_get_feature_report(sc) ==
    LET r == hid_getFeatureReport(sc, FeatureBuffer(sc)) IN
    handle_buffer_and_error(sc, r.data, r.result)

\* The calls a client can make and what the native side can answer: the
\* arguments, the native result (at most maxLength), the bytes the device
\* sent, and what hid_error would return.
Scenarios ==
    UNION {UNION {
        {[maxLength |-> ml, reportId |-> id, result |-> n, payload |-> pl, err |-> e] :
            id \in ReportIds, pl \in [1..(IF n > 0 THEN n ELSE 0) -> Bytes],
            e \in Msgs \cup {NULLMSG}}
        : n \in NegResults \cup (0..ml)} : ml \in 0..MaxLen}

Builds == [ndebug : BOOLEAN, use_fprintf : BOOLEAN]

\* What no read or feature-report call touches.
deviceVars == <<uniq, shr, ctrl, issued, openedBy, closeCount, lastOp, variant, build, progVars>>

\* A further call situation arises: other arguments, another native answer.
Simulate ==
    /\ scenario' \in Scenarios
    /\ out' = [a \in Apis |-> NotCalled]
    /\ outL' = [a \in LoggerApis |-> LoggerNotCalled]
    /\ UNCHANGED deviceVars

\* DeviceBase::read of HDK-Logger.cpp is called.
CallLoggerRead ==
    /\ outL["read"].status = "none"
    /\ outL' = [outL EXCEPT !["read"] = Logger_read(scenario)]
    /\ UNCHANGED <<scenario, out, deviceVars>>

\* DeviceBase::get_feature_report of HDK-Logger.cpp is called.
CallLoggerGetFeatureReport ==
    /\ outL["get_feature_report"].status = "none"
    /\ outL' = [outL EXCEPT !["get_feature_report"] = Logger_get_feature_report(scenario)]
    /\ UNCHANGED <<scenario, out, deviceVars>>

CallRead ==
    /\ out["read"].status = "none"
    /\ out' = [out EXCEPT !["read"] = read(scenario)]
    /\ UNCHANGED <<scenario, outL, deviceVars>>

CallGetFeatureReportThrowing ==
    /\ out["get_feature_report_throwing"].status = "none"
    /\ out' = [out EXCEPT !["get_feature_report_throwing"] =
                              get_feature_report_throwing(scenario)]
    /\ UNCHANGED <<scenario, outL, deviceVars>>

\* One UniqueDevice, opened by vendor/product id, on which the calls are made.
InitDevice ==
    /\ uniq = [s \in USlots |-> IF s = 1 THEN [alive |-> TRUE, dev_ |-> 1, moved |-> FALSE]
                                ELSE DeadU]
    /\ shr = [s \in SSlots |-> DeadS]
    /\ ctrl = [c \in CBlocks |-> FreeCB]
    /\ issued = 1
    /\ openedBy = [h \in Handles |-> IF h = 1 THEN "unique" ELSE "none"]
    /\ closeCount = [h \in 0..MaxHandles |-> 0]
    /\ lastOp = [Op("UniqueOpen", 1, 0, 1, NULL, FALSE, <<>>) EXCEPT !.arg = <<VID_HDK, PID_HDK>>]
    /\ variant = "unique"

IOInit ==
    /\ InitDevice
    /\ build \in Builds
    /\ scenario \in Scenarios
    /\ out = [a \in Apis |-> NotCalled]
    /\ outL = [a \in LoggerApis |-> LoggerNotCalled]
    /\ NoProgram

IONext ==
    \/ Simulate
    \/ CallRead
    \/ CallGetFeatureReportThrowing
    \/ CallLoggerRead
    \/ CallLoggerGetFeatureReport

SpecIO == IOInit /\ [][IONext]_vars

(***************************************************************************)
(* Claims about read / feature report, checked under SpecIO.               *)
(***************************************************************************)
Throwing == {"get_feature_report_throwing"}
NonThrowing == {"read"}
Called(a) == out[a].status # "none"

\* C3 (as claimed): for every read or feature-report call whose native result
\* is negative, whatever hid_error returns, the throwing API raises and the
\* non-throwing API returns an empty buffer with a non-null error.
C3_NegativeAlwaysSignalled ==
    \A a \in Apis : (Called(a) /\ scenario.result < 0) =>
        /\ a \in Throwing => out[a].status = "raised"
        /\ a \in NonThrowing =>
              /\ out[a].status = "returned"
              /\ out[a].data = <<>>
              /\ had_error(out[a])

\* C4 (as claimed): under the same simulated native behaviour the throwing
\* API raises exactly when the non-throwing API reports had_error, and when
\* neither signals an error both return the same buffer.
C4_PolicyEquivalence ==
    \A n \in NonThrowing, t \in Throwing : (Called(n) /\ Called(t)) =>
        LET data == DataVector(scenario.maxLength)
            hb == handle_buffer(scenario, data, scenario.result)
            ht == handle_buffer_and_throw(scenario, data, scenario.result) IN
        /\ out[t].status = "raised" <=> had_error(out[n])
        /\ ht.status = "raised" <=> had_error(hb)
        /\ (ht.status # "raised" /\ ~had_error(hb)) => ht.data = hb.data

\* C8: a read whose native result n is non-negative returns a buffer of
\* exactly n bytes, the n bytes received, paired with the no-error marker.
C8_ReadLengthIsResult ==
    \A a \in {"read"} : (Called(a) /\ scenario.result >= 0) =>
        /\ out[a].status = "returned"
        /\ Len(out[a].data) = scenario.result
        /\ out[a].data = scenario.payload
        /\ ~had_error(out[a])

\* A read asked for more bytes than the native call delivered.
C8_Witness ==
    /\ Called("read") /\ scenario.result = 1 /\ scenario.maxLength = 2
    /\ Len(out["read"].data) = 1 /\ ~had_error(out["read"])

\* C9: a native result of 0 is no error in either API: read returns an empty
\* buffer with had_error false, the throwing API returns an empty buffer
\* without raising, and hid_error is not called.
C9_ZeroBytesIsNoError ==
    \A a \in Apis : (Called(a) /\ scenario.result = 0) =>
        /\ out[a].status = "returned"
        /\ out[a].data = <<>>
        /\ ~had_error(out[a])
        /\ out[a].errCalls = 0
        /\ out[a].stderr = <<>>

\* Both APIs have answered a zero-byte native result while hid_error had a
\* stale message to give.
C9_Witness ==
    /\ scenario.result = 0 /\ scenario.maxLength > 0 /\ scenario.err # NULLMSG
    /\ out["read"].status = "returned"
    /\ out["get_feature_report_throwing"].status = "returned"

\* C11 (as claimed): when a native call failed and hid_error supplies no
\* message, detail::handle_error does not crash and returns a synthetic,
\* non-null message, so both APIs still surface an error: the non-throwing
\* one with had_error true, the throwing one by raising.
C11_NoMessageStillAnError ==
    \A a \in Apis : (Called(a) /\ scenario.result < 0 /\ hid_error(scenario) = NULLMSG) =>
        /\ ~handle_error(scenario).aborted
        /\ handle_error(scenario).msg # NULLMSG
        /\ out[a].status # "aborted"
        /\ a \in NonThrowing => (out[a].status = "returned" /\ had_error(out[a]))
        /\ a \in Throwing => out[a].status = "raised"

FeatureApis == {"get_feature_report_throwing"}

\* C12 (as claimed): every successful get_feature_report call (native
\* result >= 0), throwing or not, returns a buffer with reportId at offset 0
\* followed by the bytes the native call filled in.
C12_FeatureReportKeepsId ==
    \A a \in FeatureApis : (Called(a) /\ scenario.result >= 0) =>
        /\ out[a].status = "returned"
        /\ Len(out[a].data) >= 1
        /\ out[a].data[1] = scenario.reportId
        /\ Tail(out[a].data) = Tail(scenario.payload)

\* C20 (as claimed): in the read and feature-report operations of the
\* DeviceBase embedded in HDK-Logger.cpp, a negative native result always ends
\* in a raised failure, and the buffer is only ever resized with a
\* non-negative count: a negative result never reaches ret.resize, whatever
\* hid_error returns.
C20_LoggerNeverResizesNegative ==
    \A a \in LoggerApis : outL[a].status # "none" =>
        /\ scenario.result < 0 => (outL[a].status = "raised" /\ outL[a].resizeArg = <<>>)
        /\ \A i \in 1..Len(outL[a].resizeArg) : outL[a].resizeArg[i] >= 0

\* The failure raised carries message m.
Carries(o, m) == o.status = "raised" /\ o.what = m

\* C10 (as claimed): when a native call fails and hid_error supplies message
\* m, the failure raised by the throwing API carries m, and the non-throwing
\* API returns an empty buffer paired with exactly m.
C10_ThrowCarriesMessage ==
    (scenario.result < 0 /\ scenario.err # NULLMSG) =>
        /\ \A t \in Throwing : Called(t) => Carries(out[t], scenario.err)
        /\ \A n \in NonThrowing : Called(n) =>
              /\ out[n].status = "returned"
              /\ out[n].data = <<>>
              /\ out[n].err = scenario.err

\* C10 (amended): when a native call fails and hid_error supplies message m,
\* the throwing API raises a failure whose text is the fixed "hidapi error",
\* whatever m is (m is written to stderr only, and only under
\* HIDAPIPP_USE_FPRINTF), and the non-throwing API returns an empty buffer
\* paired with exactly m.
C10_ThrowIsGenericReturnCarriesMessage ==
    (scenario.result < 0 /\ scenario.err # NULLMSG) =>
        /\ \A t \in Throwing : Called(t) =>
              /\ out[t].status = "raised"
              /\ out[t].what = WHAT_ERROR
              /\ ~Carries(out[t], scenario.err)
              /\ out[t].stderr =
                    (IF build.use_fprintf THEN <<"hidapi error: %ls", scenario.err>> ELSE <<>>)
        /\ \A n \in NonThrowing : Called(n) =>
              /\ out[n].status = "returned"
              /\ out[n].data = <<>>
              /\ out[n].err = scenario.err

\* A native call failed with "timeout": the throwing API has raised and the
\* non-throwing API has returned the message.
C10_Witness ==
    /\ scenario.result = -1 /\ scenario.err = "timeout" /\ scenario.maxLength > 0
    /\ out["get_feature_report_throwing"].status = "raised"
    /\ out["read"].status = "returned" /\ out["read"].err = "timeout"

(***************************************************************************)
(* Library.h and Enumeration.h.                                            *)
(***************************************************************************)
MaxDevices == 2

HDK_PATH2 == "/dev/hidraw1"
OTHER_PATH == "/dev/hidraw2"

\* struct hid_device_info, without the link.
Descs ==
    {[vendor_id |-> VID_HDK, product_id |-> PID_HDK, path |-> HDK_PATH],
     [vendor_id |-> VID_HDK, product_id |-> PID_HDK, path |-> HDK_PATH2],
     [vendor_id |-> VID_OTHER, product_id |-> PID_OTHER, path |-> OTHER_PATH]}

\* The devices that can be attached: at most MaxDevices, each at its own path.
Worlds ==
    UNION {{w \in [1..n -> Descs] : \A i, j \in 1..n : w[i] = w[j] => i = j} : n \in 0..MaxDevices}

\* A native call as it appears in the log of calls.
Call(fn, arg) == [fn |-> fn, arg |-> arg]

\* hid_init(): 0, or -1 on failure.
hid_init_results == {0, -1}

WHAT_INIT == "Could not initialize HIDAPI!"

\* mutant: a constructor that does not throw on a failed hid_init
Library_ctor_NoThrow(l, rc) ==
    [guard |-> [l EXCEPT !.alive = TRUE, !.ctors = @ + 1, !.inits = @ + 1,
                         !.oks = IF rc = 0 THEN @ + 1 ELSE @, !.rc = rc],
     exc |-> ""]

\* Library::Library(), hid_init returning rc: a non-zero result throws, and
\* no object exists then.
Library_ctor(l, rc) ==
    [guard |-> [l EXCEPT !.alive = (rc = 0), !.ctors = @ + 1, !.inits = @ + 1,
                         !.oks = IF rc = 0 THEN @ + 1 ELSE @, !.rc = rc],
     exc |-> IF rc # 0 THEN WHAT_INIT ELSE ""]

\* mutant: a destructor that calls hid_exit twice
Library_dtor_Twice(l) == [l EXCEPT !.alive = FALSE, !.exits = @ + 2]

\* mutant: a destructor that does not call hid_exit
Library_dtor_Noop(l) == [l EXCEPT !.alive = FALSE]

\* Library::~Library(): hid_exit().
Library_dtor(l) == [l EXCEPT !.alive = FALSE, !.exits = @ + 1]

\* Whether a device answers to the filter of hid_enumerate (0 matches all).
Matches(d, vid, pid) ==
    /\ vid = 0 \/ d.vendor_id = vid
    /\ pid = 0 \/ d.product_id = pid

RECURSIVE Filter(_, _, _)
Filter(w, vid, pid) ==
    IF w = <<>> THEN <<>>
    ELSE (IF Matches(Head(w), vid, pid) THEN <<Head(w)>> ELSE <<>>) \o Filter(Tail(w), vid, pid)

\* hid_enumerate(vid, pid) when base nodes are allocated already: the linked
\* list of the matching devices in fresh nodes base + 1, base + 2, ..., each
\* linking to the next and the last to NULL; NULL when nothing matches.
hid_enumerate_at(base, vid, pid) ==
    LET ds == Filter(world, vid, pid) IN
    [head |-> IF ds = <<>> THEN NULL ELSE base + 1,
     chain |-> [i \in 1..Len(ds) |->
                  [vendor_id |-> ds[i].vendor_id, product_id |-> ds[i].product_id,
                   path |-> ds[i].path,
                   next |-> IF i < Len(ds) THEN base + i + 1 ELSE NULL]]]

\* hid_enumerate(vid, pid)
hid_enumerate(vid, pid) == hid_enumerate_at(Len(en.chain), vid, pid)

\* mutant: a deleter that frees nothing
EnumerationDeleter_Noop(devs) == <<>>

\* EnumerationDeleter::operator()(devs): the hid_free_enumeration calls made.
EnumerationDeleter(devs) == <<devs>>

\* mutant: the deleter is invoked on a null pointer too
EnumerationUniquePtr_release_NoNullCheck(p) == EnumerationDeleter(p)

\* std::unique_ptr<hid_device_info, EnumerationDeleter>: the destructor
\* invokes the deleter only on a non-null pointer.
EnumerationUniquePtr_release(p) == IF p # NULL THEN EnumerationDeleter(p) ELSE <<>>

\* Enumeration::Enumeration(vid, pid): devs_(hid_enumerate(vid, pid)).
Enumeration_ctor(vid, pid) ==
    LET r == hid_enumerate(vid, pid) IN
    [alive |-> TRUE, devs_ |-> r.head, chain |-> en.chain \o r.chain, args |-> <<vid, pid>>,
     freed |-> en.freed]

\* The implicit Enumeration(Enumeration &&other): devs_(std::move(other.devs_));
\* the new object takes the pointer, other is left with null, nothing is freed.
Enumeration_move_ctor(other_devs) ==
    [devs_ |-> other_devs, other |-> NULL, frees |-> <<>>]

\* The implicit Enumeration::operator=(Enumeration &&other), i.e.
\* devs_.reset(other.devs_.release()): other gives its pointer up, devs_ takes
\* it and the pointer devs_ held before is deleted. same: other is *this, and
\* release() has emptied devs_ before reset() looks at it.
Enumeration_move_assign(devs, other_devs, same) ==
    LET released == other_devs
        old == IF same THEN NULL ELSE devs IN
    [devs_ |-> released,
     other |-> IF same THEN released ELSE NULL,
     frees |-> EnumerationUniquePtr_release(old)]

\* Enumeration::~Enumeration(): destroys devs_.
Enumeration_dtor(e) ==
    [e EXCEPT !.alive = FALSE, !.freed = @ \o EnumerationUniquePtr_release(e.devs_)]

\* EnumerationIterator(dev) and EnumerationIterator(): a cursor is its dev_.
EnumerationIterator(dev) == dev
EnumerationIterator_end == NULL

\* Enumeration::begin() / end()
begin(e) == EnumerationIterator(e.devs_)
end(e) == EnumerationIterator_end

\* EnumerationIterator::operator*(): dev_
operator_deref(it) == it

\* mutant: an increment that skips an entry
operator_inc_Skip(e, it) ==
    IF e.chain[it].next # NULL THEN e.chain[e.chain[it].next].next ELSE NULL

\* EnumerationIterator::operator++(): dev_ = dev_->next
operator_inc(e, it) == e.chain[it].next

\* mutant: cursors compared by validity only
operator_eq_ByValidity(lhs, rhs) == (lhs # NULL) = (rhs # NULL)

\* operator==(lhs, rhs): *lhs == *rhs
operator_eq(lhs, rhs) == operator_deref(lhs) = operator_deref(rhs)

\* operator!=(lhs, rhs): *lhs != *rhs
operator_ne(lhs, rhs) == operator_deref(lhs) # operator_deref(rhs)

(***************************************************************************)
(* Specification of the ownership model.                                   *)
(***************************************************************************)
InitIO ==
    /\ build = [ndebug |-> FALSE, use_fprintf |-> FALSE]
    /\ scenario = <<>>
    /\ out = <<>>
    /\ outL = <<>>
    /\ NoProgram

Init ==
    /\ uniq = [s \in USlots |-> DeadU]
    /\ shr = [s \in SSlots |-> DeadS]
    /\ ctrl = [c \in CBlocks |-> FreeCB]
    /\ issued = 0
    /\ openedBy = [h \in Handles |-> "none"]
    /\ closeCount = [h \in 0..MaxHandles |-> 0]
    /\ lastOp = NoOp
    /\ variant \in {"unique", "shared"}
    /\ InitIO

Next ==
    \/ \E s \in USlots : UniqueDefault(s)
    \/ \E s \in USlots : UniqueOpen(s)
    \/ \E s \in USlots : UniqueOpenPath(s)
    \/ \E s, d \in USlots : UniqueMoveConstruct(s, d)
    \/ \E s, d \in USlots : UniqueMoveAssign(s, d)
    \/ \E s \in USlots : UniqueDestroy(s)
    \/ \E s \in SSlots : SharedDefault(s)
    \/ \E s \in SSlots : SharedOpen(s)
    \/ \E s \in SSlots : SharedOpenPath(s)
    \/ \E s, d \in SSlots : SharedCopyConstruct(s, d)
    \/ \E s, d \in SSlots : SharedCopyAssign(s, d)
    \/ \E s, d \in SSlots : SharedMoveConstruct(s, d)
    \/ \E s, d \in SSlots : SharedMoveAssign(s, d)
    \/ \E s \in SSlots : SharedDestroy(s)

Spec == Init /\ [][Next]_vars

(***************************************************************************)
(* Claims about ownership, checked under Spec.                             *)
(***************************************************************************)
UniqueHolders(h) == {s \in USlots : uniq[s].alive /\ UniqueDevice_get(s) = h}
SharedHolders(h) == {s \in SSlots : shr[s].alive /\ SharedOwned(s) = h}

\* C1: every native handle a UniqueDevice constructor obtained non-null is
\* passed to hid_close at most once, it is held by exactly one live
\* UniqueDevice until it is closed, and once no UniqueDevice is alive it has
\* been closed exactly once.
C1_UniqueClosedExactlyOnce ==
    \A h \in Handles : openedBy[h] = "unique" =>
        /\ closeCount[h] <= 1
        /\ closeCount[h] = 0 => Cardinality(UniqueHolders(h)) = 1
        /\ closeCount[h] = 1 => UniqueHolders(h) = {}
        /\ (\A s \in USlots : ~uniq[s].alive) => closeCount[h] = 1

\* Every handle was opened by a UniqueDevice, every UniqueDevice is gone, and
\* each handle has been closed once, the last by a destructor.
C1_Witness ==
    /\ \A h \in Handles : openedBy[h] = "unique" /\ closeCount[h] = 1
    /\ \A s \in USlots : ~uniq[s].alive
    /\ lastOp.op = "UniqueDestroy" /\ lastOp.closes # <<>>

\* C2: a native handle opened by a SharedDevice is not closed while any copy
\* owning it is alive, and has been closed exactly once when none is: the one
\* hid_close call is made by the operation that ends the last copy.
C2_SharedClosedByLastCopy ==
    /\ \A h \in Handles : openedBy[h] = "shared" =>
          /\ SharedHolders(h) # {} => closeCount[h] = 0
          /\ SharedHolders(h) = {} => closeCount[h] = 1
    /\ (variant = "shared" /\ lastOp.closes # <<>>) =>
          /\ lastOp.last
          /\ lastOp.closes = <<lastOp.owned>>
          /\ SharedHolders(lastOp.owned) = {}

\* One of two copies has just been destroyed; the other is alive and the
\* handle is still open.
C2_Witness ==
    /\ lastOp.op = "SharedDestroy" /\ lastOp.owned # NULL /\ ~lastOp.last
    /\ SharedHolders(lastOp.owned) # {}
    /\ closeCount[lastOp.owned] = 0

\* C5: after move construction the source is invalid (operator bool false,
\* get() null), the destination holds the pointer the source held (valid
\* when the source was), no hid_close call was made; and destroying a
\* moved-from UniqueDevice makes no hid_close call.
C5_MoveLeavesSourceNull ==
    /\ lastOp.op = "UniqueMoveConstruct" =>
          /\ UniqueDevice_get(lastOp.a) = NULL
          /\ ~operator_bool(UniqueDevice_get(lastOp.a))
          /\ UniqueDevice_get(lastOp.b) = lastOp.owned
          /\ operator_bool(UniqueDevice_get(lastOp.b)) <=> lastOp.owned # NULL
          /\ lastOp.closes = <<>>
    /\ \A s \in USlots : (uniq[s].alive /\ uniq[s].moved) => ~operator_bool(UniqueDevice_get(s))
    /\ (lastOp.op = "UniqueDestroy" /\ lastOp.moved) => lastOp.closes = <<>>

\* A moved-from UniqueDevice has just been destroyed while the object it was
\* moved into still holds the open handle.
C5_Witness ==
    /\ lastOp.op = "UniqueDestroy" /\ lastOp.moved /\ lastOp.closes = <<>>
    /\ \E d \in USlots : /\ uniq[d].alive
                          /\ operator_bool(UniqueDevice_get(d))
                          /\ closeCount[UniqueDevice_get(d)] = 0

\* C6: a destructor calls hid_close exactly when the destroyed object is the
\* (last) owner of a non-null native handle, and then on that handle; no
\* operation ever calls hid_close on a null pointer.
C6_CloseIffNonNull ==
    /\ lastOp.op = "UniqueDestroy" =>
          lastOp.closes = (IF lastOp.owned # NULL THEN <<lastOp.owned>> ELSE <<>>)
    /\ lastOp.op = "SharedDestroy" =>
          lastOp.closes = (IF lastOp.last /\ lastOp.owned # NULL THEN <<lastOp.owned>> ELSE <<>>)
    /\ closeCount[NULL] = 0

\* The last owner of a control block built from a null open result has just
\* been destroyed: the deleter ran and closed nothing.
C6_Witness ==
    /\ lastOp.op = "SharedDestroy" /\ lastOp.last /\ lastOp.owned = NULL
    /\ lastOp.closes = <<>>

Opens == {"UniqueOpen", "UniqueOpenPath", "SharedOpen", "SharedOpenPath"}

\* C7: a constructor whose native open returned null raises nothing and
\* yields an object whose operator bool is false (true when the open
\* returned a handle); and for every live object of either variant operator bool
\* is true exactly when the native handle it owns is non-null.
C7_ValidIffNonNull ==
    /\ lastOp.op \in Opens =>
          /\ ~lastOp.raised
          /\ lastOp.op \in {"UniqueOpen", "UniqueOpenPath"} =>
                /\ uniq[lastOp.a].alive
                /\ operator_bool(UniqueDevice_get(lastOp.a)) <=> lastOp.native # NULL
          /\ lastOp.op \in {"SharedOpen", "SharedOpenPath"} =>
                /\ shr[lastOp.a].alive
                /\ operator_bool(SharedDevice_get(lastOp.a)) <=> lastOp.native # NULL
    /\ \A s \in USlots : uniq[s].alive =>
          (operator_bool(UniqueDevice_get(s)) <=> uniq[s].dev_ # NULL)
    /\ \A s \in SSlots : shr[s].alive =>
          (operator_bool(SharedDevice_get(s)) <=> SharedOwned(s) # NULL)

\* A UniqueDevice has just been constructed for a vendor/product pair nothing
\* answers to: no exception, and the object is invalid.
C7_Witness ==
    /\ lastOp.op = "UniqueOpen" /\ lastOp.arg = <<VID_OTHER, PID_OTHER>>
    /\ lastOp.native = NULL /\ ~lastOp.raised
    /\ uniq[lastOp.a].alive /\ ~operator_bool(UniqueDevice_get(lastOp.a))

\* C23: a move assignment of UniqueDevice src to another UniqueDevice dst
\* that owns a non-null handle calls hid_close on that handle exactly once,
\* in the assignment (and makes no other hid_close call), gives dst the handle
\* src held and leaves src null; a move assignment of a UniqueDevice to
\* itself makes no hid_close call and leaves the object as it was, valid if
\* it was valid.
C23_MoveAssignClosesPrevious ==
    [][lastOp'.op = "UniqueMoveAssign" =>
          LET src == lastOp'.a
              dst == lastOp'.b
              old == uniq[dst].dev_ IN
          IF src = dst
          THEN /\ uniq' = uniq
               /\ operator_bool(uniq'[dst].dev_) <=> operator_bool(uniq[dst].dev_)
               /\ closeCount' = closeCount
               /\ lastOp'.closes = <<>>
          ELSE /\ uniq'[dst].dev_ = uniq[src].dev_
               /\ uniq'[src].dev_ = NULL
               /\ ~operator_bool(uniq'[src].dev_)
               /\ old # NULL =>
                     /\ lastOp'.closes = <<old>>
                     /\ closeCount[old] = 0
                     /\ closeCount'[old] = 1
               /\ \A h \in 0..MaxHandles :
                     (h # old \/ old = NULL) => closeCount'[h] = closeCount[h]]_vars

\* A UniqueDevice holding an open handle has just been move-assigned onto
\* another that held a different open handle: the latter handle is closed,
\* the destination holds the former, the source is null.
C23_Witness ==
    /\ lastOp.op = "UniqueMoveAssign" /\ lastOp.a # lastOp.b
    /\ lastOp.owned # NULL /\ lastOp.closes = <<lastOp.owned>>
    /\ closeCount[lastOp.owned] = 1
    /\ operator_bool(UniqueDevice_get(lastOp.b))
    /\ UniqueDevice_get(lastOp.b) # lastOp.owned
    /\ closeCount[UniqueDevice_get(lastOp.b)] = 0
    /\ UniqueDevice_get(lastOp.a) = NULL

(***************************************************************************)
(* A client scope holding a Library, an Enumeration and a UniqueDevice:    *)
(*     { Library lib; Enumeration e(vid, pid);                             *)
(*       for (auto cur_dev : e) { ... }                                    *)
(*       Enumeration e2;  or  Enumeration e2(std::move(e));                *)
(*       e = std::move(e2); e2 = std::move(e); e = std::move(e); ...       *)
(*       UniqueDevice dev(vid, pid);                                       *)
(*       dev.get_feature_report_throwing(reportId, maxLength); }           *)
(* left by return at any point or by an exception, which a handler outside *)
(* the scope catches.                                                      *)
(***************************************************************************)
scopeDeviceVars == <<shr, ctrl, variant, build, outL, world>>

\* Library lib;
ScopeLibrary ==
    /\ pc = "start"
    /\ \E rc \in hid_init_results :
        LET c == Library_ctor(lib, rc) IN
        /\ lib' = c.guard
        /\ prog' = [prog EXCEPT !.exc = c.exc,
                                !.raisedBy = IF c.exc # "" THEN "Library" ELSE "",
                                !.calls = Append(@, Call("hid_init", <<>>))]
        /\ pc' = IF c.exc # "" THEN "done" ELSE "lib"
    /\ UNCHANGED <<uniq, issued, openedBy, closeCount, lastOp, scenario, out, en>>
    /\ UNCHANGED scopeDeviceVars

\* Enumeration e(vid, pid); and the start of the range-for: it = e.begin().
ScopeEnumerate ==
    /\ pc = "lib"
    /\ \E vid \in {0} \cup VIDs, pid \in {0} \cup PIDs :
        LET e == Enumeration_ctor(vid, pid) IN
        /\ en' = e
        /\ prog' = [prog EXCEPT !.filter = <<vid, pid>>, !.it = begin(e),
                                !.calls = Append(@, Call("hid_enumerate", <<vid, pid>>))]
    /\ pc' = "loop"
    /\ UNCHANGED <<uniq, issued, openedBy, closeCount, lastOp, scenario, out, lib>>
    /\ UNCHANGED scopeDeviceVars

\* One round of the range-for: it != e.end(); cur_dev = *it; body; ++it.
ScopeLoopStep ==
    /\ pc = "loop"
    /\ operator_ne(prog.it, end(en))
    /\ prog' = [prog EXCEPT !.yielded = Append(@, en.chain[operator_deref(prog.it)]),
                            !.it = operator_inc(en, prog.it)]
    /\ UNCHANGED <<uniq, issued, openedBy, closeCount, lastOp, scenario, out, lib, en, pc>>
    /\ UNCHANGED scopeDeviceVars

\* The range-for ends: it == e.end().
ScopeLoopEnd ==
    /\ pc = "loop"
    /\ ~operator_ne(prog.it, end(en))
    /\ pc' = "scanned"
    /\ UNCHANGED <<uniq, issued, openedBy, closeCount, lastOp, scenario, out, lib, en, prog>>
    /\ UNCHANGED scopeDeviceVars

\* Enumeration e2; a second enumeration, of every device.
ScopeEnumerate2 ==
    /\ pc = "scanned"
    /\ ~prog.e2.alive
    /\ LET r == hid_enumerate(0, 0) IN
        /\ en' = [en EXCEPT !.chain = @ \o r.chain]
        /\ prog' = [prog EXCEPT !.e2 = [alive |-> TRUE, devs_ |-> r.head],
                                !.calls = Append(@, Call("hid_enumerate", <<0, 0>>))]
    /\ UNCHANGED <<uniq, issued, openedBy, closeCount, lastOp, scenario, out, lib, pc>>
    /\ UNCHANGED scopeDeviceVars

\* Enumeration e2(std::move(e));
ScopeEnumMoveConstruct ==
    /\ pc = "scanned"
    /\ ~prog.e2.alive
    /\ LET m == Enumeration_move_ctor(en.devs_) IN
        /\ en' = [en EXCEPT !.devs_ = m.other]
        /\ prog' = [prog EXCEPT !.e2 = [alive |-> TRUE, devs_ |-> m.devs_]]
    /\ UNCHANGED <<uniq, issued, openedBy, closeCount, lastOp, scenario, out, lib, pc>>
    /\ UNCHANGED scopeDeviceVars

\* dst = std::move(src); for dst and src among e and e2.
ScopeEnumMoveAssign(dst, src) ==
    /\ pc = "scanned"
    /\ en.alive
    /\ (dst = "e2" \/ src = "e2") => prog.e2.alive
    /\ LET devsOf(o) == IF o = "e" THEN en.devs_ ELSE prog.e2.devs_
           m == Enumeration_move_assign(devsOf(dst), devsOf(src), dst = src)
           after(o) == IF o = dst THEN m.devs_ ELSE IF o = src THEN m.other ELSE devsOf(o) IN
        /\ en' = [en EXCEPT !.devs_ = after("e"), !.freed = @ \o m.frees]
        /\ prog' = [prog EXCEPT !.e2.devs_ = after("e2"),
                                !.calls = @ \o [i \in 1..Len(m.frees) |->
                                                   Call("hid_free_enumeration", <<m.frees[i]>>)]]
    /\ UNCHANGED <<uniq, issued, openedBy, closeCount, lastOp, scenario, out, lib, pc>>
    /\ UNCHANGED scopeDeviceVars

\* UniqueDevice dev(vid, pid);
ScopeOpen ==
    /\ pc = "scanned"
    /\ \E vid \in VIDs, pid \in PIDs : \E r \in hid_open_results(vid, pid) :
        /\ uniq' = [uniq EXCEPT ![1] = [alive |-> TRUE, dev_ |-> r, moved |-> FALSE]]
        /\ Issue(r, "unique")
        /\ lastOp' = [Op("UniqueOpen", 1, 0, r, NULL, FALSE, <<>>) EXCEPT !.arg = <<vid, pid>>]
        /\ prog' = [prog EXCEPT !.calls = Append(@, Call("hid_open", <<vid, pid>>))]
    /\ pc' = "opened"
    /\ UNCHANGED <<closeCount, scenario, out, lib, en>>
    /\ UNCHANGED scopeDeviceVars

\* if (dev) dev.get_feature_report_throwing(reportId, maxLength); it
\* returns, raises, or the process aborts on the assert of
\* detail::handle_error.
ScopeGetFeatureReportThrowing ==
    /\ pc = "opened"
    /\ operator_bool(UniqueDevice_get(1))
    /\ \E sc \in Scenarios :
        LET o == get_feature_report_throwing(sc) IN
        /\ scenario' = sc
        /\ out' = [out EXCEPT !["get_feature_report_throwing"] = o]
        /\ prog' = [prog EXCEPT
                !.exc = IF o.status = "raised" THEN o.what ELSE "",
                !.raisedBy = IF o.status = "raised" THEN "get_feature_report_throwing" ELSE "",
                !.calls = @ \o <<Call("hid_getFeatureReport",
                                      <<UniqueDevice_get(1), sc.maxLength>>)>>
                            \o [i \in 1..o.errCalls |-> Call("hid_error", <<UniqueDevice_get(1)>>)]]
        /\ pc' = CASE o.status = "returned" -> "read"
                   [] o.status = "raised" -> "unwind"
                   [] OTHER -> "aborted"
    /\ UNCHANGED <<uniq, issued, openedBy, closeCount, lastOp, lib, en>>
    /\ UNCHANGED scopeDeviceVars

\* return; at the end of the scope, or earlier.
ScopeReturn ==
    /\ pc \in {"lib", "loop", "scanned", "opened", "read"}
    /\ prog' = [prog EXCEPT !.ret = IF pc = "read" THEN "return" ELSE "early return"]
    /\ pc' = "unwind"
    /\ UNCHANGED <<uniq, issued, openedBy, closeCount, lastOp, scenario, out, lib, en>>
    /\ UNCHANGED scopeDeviceVars

\* Leaving the scope destroys its objects in reverse order: dev first.
ScopeDestroyDevice ==
    /\ pc = "unwind"
    /\ uniq[1].alive
    /\ LET closes == DeviceUniquePtr_release(uniq[1].dev_) IN
        /\ uniq' = [uniq EXCEPT ![1] = DeadU]
        /\ closeCount' = RecordCloses(closes)
        /\ lastOp' = [Op("UniqueDestroy", 1, 0, NULL, uniq[1].dev_, TRUE, closes)
                          EXCEPT !.moved = uniq[1].moved]
        /\ prog' = [prog EXCEPT !.calls = @ \o [i \in 1..Len(closes) |->
                                                   Call("hid_close", <<closes[i]>>)]]
    /\ UNCHANGED <<issued, openedBy, scenario, out, lib, en, pc>>
    /\ UNCHANGED scopeDeviceVars

\* ... then e2, when the scope got that far ...
ScopeDestroyEnumeration2 ==
    /\ pc = "unwind"
    /\ ~uniq[1].alive
    /\ prog.e2.alive
    /\ LET frees == EnumerationUniquePtr_release(prog.e2.devs_) IN
        /\ en' = [en EXCEPT !.freed = @ \o frees]
        /\ prog' = [prog EXCEPT !.e2.alive = FALSE,
                                !.calls = @ \o [i \in 1..Len(frees) |->
                                                   Call("hid_free_enumeration", <<frees[i]>>)]]
    /\ UNCHANGED <<uniq, issued, openedBy, closeCount, lastOp, scenario, out, lib, pc>>
    /\ UNCHANGED scopeDeviceVars

\* ... then e.
ScopeDestroyEnumeration ==
    /\ pc = "unwind"
    /\ ~uniq[1].alive
    /\ ~prog.e2.alive
    /\ en.alive
    /\ en' = Enumeration_dtor(en)
    /\ prog' = [prog EXCEPT !.calls = @ \o [i \in 1..(Len(en'.freed) - Len(en.freed)) |->
                                               Call("hid_free_enumeration",
                                                    <<en'.freed[Len(en.freed) + i]>>)]]
    /\ UNCHANGED <<uniq, issued, openedBy, closeCount, lastOp, scenario, out, lib, pc>>
    /\ UNCHANGED scopeDeviceVars

\* ... then lib, and the scope is left.
ScopeDestroyLibrary ==
    /\ pc = "unwind"
    /\ ~uniq[1].alive
    /\ ~prog.e2.alive
    /\ ~en.alive
    /\ lib.alive
    /\ lib' = Library_dtor(lib)
    /\ prog' = [prog EXCEPT !.calls = @ \o [i \in 1..(lib'.exits - lib.exits) |->
                                               Call("hid_exit", <<>>)]]
    /\ pc' = "done"
    /\ UNCHANGED <<uniq, issued, openedBy, closeCount, lastOp, scenario, out, en>>
    /\ UNCHANGED scopeDeviceVars

\* No object exists yet; the devices attached and the build are arbitrary.
NoObjects ==
    /\ uniq = [s \in USlots |-> DeadU]
    /\ shr = [s \in SSlots |-> DeadS]
    /\ ctrl = [c \in CBlocks |-> FreeCB]
    /\ issued = 0
    /\ openedBy = [h \in Handles |-> "none"]
    /\ closeCount = [h \in 0..MaxHandles |-> 0]
    /\ lastOp = NoOp
    /\ variant = "unique"
    /\ scenario = <<>>
    /\ out = [a \in Apis |-> NotCalled]
    /\ outL = [a \in LoggerApis |-> LoggerNotCalled]
    /\ lib = NoLibrary
    /\ world \in Worlds
    /\ en = NoEnumeration
    /\ prog = NoLocals

ScopeInit ==
    /\ NoObjects
    /\ build \in Builds
    /\ pc = "start"

ScopeNext ==
    \/ ScopeLibrary
    \/ ScopeEnumerate
    \/ ScopeLoopStep
    \/ ScopeLoopEnd
    \/ ScopeEnumerate2
    \/ ScopeEnumMoveConstruct
    \/ \E d, s \in {"e", "e2"} : ScopeEnumMoveAssign(d, s)
    \/ ScopeOpen
    \/ ScopeGetFeatureReportThrowing
    \/ ScopeReturn
    \/ ScopeDestroyDevice
    \/ ScopeDestroyEnumeration2
    \/ ScopeDestroyEnumeration
    \/ ScopeDestroyLibrary

SpecScope == ScopeInit /\ [][ScopeNext]_vars

(***************************************************************************)
(* Claims about the Library guard and the Enumeration, checked under       *)
(* SpecScope.                                                              *)
(***************************************************************************)
\* The chain heads hid_enumerate has returned: the first node, and every
\* node that follows the last node of a chain.
Heads == {p \in 1..Len(en.chain) : p = 1 \/ en.chain[p - 1].next = NULL}

\* How often pointer p has been handed to hid_free_enumeration.
FreedCount(p) == Cardinality({i \in 1..Len(en.freed) : en.freed[i] = p})

\* C13: when get_feature_report_throwing raises while lib, e (and e2) and dev
\* are alive, once the failure has left the scope the native handle has been
\* closed exactly once, every enumeration chain freed exactly once, hid_exit
\* called exactly once, and nothing is still acquired; no release happens
\* twice on the way.
C13_UnwindingReleasesAll ==
    prog.raisedBy = "get_feature_report_throwing" =>
        /\ \A h \in 0..MaxHandles : closeCount[h] <= 1
        /\ closeCount[NULL] = 0
        /\ \A i \in 1..Len(en.freed) : en.freed[i] \in Heads /\ FreedCount(en.freed[i]) = 1
        /\ lib.exits <= 1
        /\ pc = "done" =>
              /\ \A h \in Handles : openedBy[h] # "none" => closeCount[h] = 1
              /\ \A p \in Heads : FreedCount(p) = 1
              /\ lib.exits = 1
              /\ ~uniq[1].alive /\ ~prog.e2.alive /\ ~en.alive /\ ~lib.alive

\* A failed feature report request has left the scope: the handle is closed,
\* the chains of e and e2 are freed and hid_exit has been called.
C13_Witness ==
    /\ pc = "done"
    /\ prog.raisedBy = "get_feature_report_throwing" /\ prog.exc = WHAT_ERROR
    /\ closeCount[1] = 1
    /\ Cardinality(Heads) = 2
    /\ Len(en.freed) = 2
    /\ lib.exits = 1

\* C14: constructing a Library calls hid_init exactly once; when hid_init
\* reports failure the construction ends in an exception, no guard is alive
\* and hid_exit is not called for it.
C14_LibraryInitOnce ==
    /\ lib.inits = lib.ctors
    /\ pc # "start" => lib.ctors = 1
    /\ lib.rc # 0 =>
          /\ ~lib.alive
          /\ prog.exc = WHAT_INIT /\ prog.raisedBy = "Library"
          /\ lib.exits = 0
          /\ pc = "done"

\* hid_init failed: the scope was left by the exception, without hid_exit.
C14_Witness ==
    /\ lib.rc = -1 /\ lib.inits = 1
    /\ pc = "done" /\ prog.exc = WHAT_INIT
    /\ lib.exits = 0

\* C15: for every Library constructed successfully hid_exit is called exactly
\* once, when the scope is left, whether by return at its end, by an early
\* return or by an exception; hid_exit calls never exceed the successful
\* hid_init calls.
C15_LibraryExitOnce ==
    /\ lib.exits <= lib.oks
    /\ lib.alive => lib.exits = 0
    /\ lib.exits > 0 => pc = "done"
    /\ (pc = "done" /\ lib.oks = 1) =>
          /\ lib.exits = 1
          /\ ~lib.alive
          /\ \/ prog.ret \in {"return", "early return"}
             \/ prog.exc # ""

\* The scope was left by an early return while a device was open, and
\* hid_exit has been called once.
C15_Witness ==
    /\ pc = "done"
    /\ prog.ret = "early return"
    /\ closeCount[1] = 1
    /\ lib.oks = 1 /\ lib.exits = 1

\* C16: the range-for over an Enumeration visits exactly the nodes of the
\* chain hid_enumerate returned for the given filter, each once and in chain
\* order, the cursor always standing on the first node not yet visited; it
\* ends after as many rounds as the chain has nodes (none for a null chain).
C16_IterationYieldsChain ==
    pc \in {"loop", "scanned"} =>
        LET chain == hid_enumerate_at(0, prog.filter[1], prog.filter[2]).chain
            n == Len(prog.yielded) IN
        /\ en.args = prog.filter
        /\ SubSeq(en.chain, 1, Len(chain)) = chain
        /\ pc = "loop" => en.chain = chain
        /\ n <= Len(chain)
        /\ prog.yielded = SubSeq(chain, 1, n)
        /\ pc = "loop" => prog.it = (IF n < Len(chain) THEN n + 1 ELSE NULL)
        /\ pc = "scanned" => prog.yielded = chain

\* The loop over a chain of two nodes has ended after two rounds.
C16_Witness ==
    /\ pc = "scanned"
    /\ en.devs_ = 1
    /\ Len(en.chain) = 2
    /\ Len(prog.yielded) = 2
    /\ prog.yielded[1].path # prog.yielded[2].path

\* The non-null pointers the Enumeration objects alive hold.
Held ==
    {d \in {en.devs_} : en.alive /\ d # NULL} \cup {d \in {prog.e2.devs_} : prog.e2.alive /\ d # NULL}

\* C17: a chain an Enumeration obtained is freed by one hid_free_enumeration
\* call on its head: only heads of chains are freed, none twice, none while
\* an Enumeration still holds it, no two Enumerations hold the same chain,
\* and once the Enumerations are out of scope every non-null chain has been
\* freed exactly once; for a null chain no call is made.
C17_ChainFreedOnce ==
    /\ \A i \in 1..Len(en.freed) : en.freed[i] \in Heads /\ FreedCount(en.freed[i]) = 1
    /\ \A p \in Held : p \in Heads /\ FreedCount(p) = 0
    /\ (en.alive /\ prog.e2.alive /\ en.devs_ # NULL) => en.devs_ # prog.e2.devs_
    /\ \A p \in Heads : FreedCount(p) = 0 => p \in Held
    /\ (en.args # <<>> /\ ~en.alive /\ ~prog.e2.alive) =>
          /\ \A p \in Heads : FreedCount(p) = 1
          /\ Len(en.freed) = Cardinality(Heads)

\* Two Enumerations with a chain each have been destroyed after a move
\* assignment between them: both heads have been handed to
\* hid_free_enumeration, the first of them at the assignment.
C17_Witness ==
    /\ ~en.alive
    /\ Heads = {1, 2}
    /\ Len(en.freed) = 2 /\ en.freed[1] # en.freed[2]
    /\ \E i \in 1..Len(prog.calls) :
          /\ prog.calls[i].fn = "hid_free_enumeration"
          /\ \E j \in (i + 1)..Len(prog.calls) : prog.calls[j].fn = "hid_open"
    /\ prog.calls[Len(prog.calls)].fn = "hid_free_enumeration"

\* The cursors over the chain of Enumeration e: one per node, and the end.
Cursors(e) == {EnumerationIterator(d) : d \in 1..Len(e.chain)} \cup {end(e)}

\* C18: two cursors compare equal exactly when they stand on the same entry
\* (or both at the end); begin() of an empty Enumeration equals end(), a
\* cursor advanced from the last entry equals end(), and a cursor on an entry
\* never equals end().
C18_CursorEquality ==
    en.alive =>
        /\ prog.it \in Cursors(en)
        /\ \A a, b \in Cursors(en) :
              /\ operator_eq(a, b) <=> (a = b)
              /\ operator_ne(a, b) <=> ~operator_eq(a, b)
        /\ en.devs_ = NULL => operator_eq(begin(en), end(en))
        /\ \A d \in 1..Len(en.chain) : ~operator_eq(EnumerationIterator(d), end(en))
        /\ Len(en.chain) >= 1 =>
              operator_eq(operator_inc(en, EnumerationIterator(Len(en.chain))), end(en))

\* The cursor of the loop has been advanced from the last of two entries and
\* equals end().
C18_Witness ==
    /\ pc = "loop"
    /\ Len(en.chain) = 2 /\ Len(prog.yielded) = 2
    /\ operator_eq(prog.it, end(en))
    /\ ~operator_eq(begin(en), prog.it)

(***************************************************************************)
(* main() of HDK-Logger.cpp. Its Library, Enumeration and UniqueDevice are *)
(* the classes the file carries itself, which construct, iterate and       *)
(* destroy as those of Library.h, Enumeration.h and Device.h do.           *)
(***************************************************************************)
\* cur_dev->vendor_id == 0x1532 && cur_dev->product_id == 0x0b00
IsHDK(cur_dev) == cur_dev.vendor_id = VID_HDK /\ cur_dev.product_id = PID_HDK

\* hid_open_path(path) for the devices attached: a fresh handle, or NULL
\* (device in use, no permission); NULL for a path nothing is attached at.
hid_open_path_attached(path) ==
    IF (\E i \in 1..Len(world) : world[i].path = path) /\ issued < MaxHandles
    THEN {NULL, issued + 1}
    ELSE {NULL}

mainDeviceVars == <<shr, ctrl, variant, build, scenario, out, outL, world>>

\* hidapi::Library lib; an exception here leaves main with no handler.
MainLibrary ==
    /\ pc = "main"
    /\ \E rc \in hid_init_results :
        LET c == Library_ctor(lib, rc) IN
        /\ lib' = c.guard
        /\ prog' = [prog EXCEPT !.exc = c.exc,
                                !.raisedBy = IF c.exc # "" THEN "Library" ELSE "",
                                !.calls = Append(@, Call("hid_init", <<>>))]
        /\ pc' = IF c.exc # "" THEN "terminated" ELSE "m_lib"
    /\ UNCHANGED <<uniq, issued, openedBy, closeCount, lastOp, en>>
    /\ UNCHANGED mainDeviceVars

\* auto hdk_path = std::string{}; and the start of the range-for over
\* hidapi::Enumeration().
MainEnumerate ==
    /\ pc = "m_lib"
    /\ LET e == Enumeration_ctor(0, 0) IN
        /\ en' = e
        /\ prog' = [prog EXCEPT !.filter = <<0, 0>>, !.it = begin(e), !.hdk_path = "",
                                !.calls = Append(@, Call("hid_enumerate", <<0, 0>>))]
    /\ pc' = "m_loop"
    /\ UNCHANGED <<uniq, issued, openedBy, closeCount, lastOp, lib>>
    /\ UNCHANGED mainDeviceVars

\* One round of the loop: the descriptor is printed, and the path of a
\* descriptor with the ids of the HDK is assigned to hdk_path.
MainLoopStep ==
    /\ pc = "m_loop"
    /\ operator_ne(prog.it, end(en))
    /\ LET cur_dev == en.chain[operator_deref(prog.it)] IN
        prog' = [prog EXCEPT !.yielded = Append(@, cur_dev),
                             !.hdk_path = IF IsHDK(cur_dev) THEN cur_dev.path ELSE @,
                             !.it = operator_inc(en, prog.it)]
    /\ UNCHANGED <<uniq, issued, openedBy, closeCount, lastOp, lib, en, pc>>
    /\ UNCHANGED mainDeviceVars

\* The loop ends and the temporary Enumeration is destroyed.
MainLoopEnd ==
    /\ pc = "m_loop"
    /\ ~operator_ne(prog.it, end(en))
    /\ en' = Enumeration_dtor(en)
    /\ prog' = [prog EXCEPT !.calls = @ \o [i \in 1..(Len(en'.freed) - Len(en.freed)) |->
                                               Call("hid_free_enumeration",
                                                    <<en'.freed[Len(en.freed) + i]>>)]]
    /\ pc' = "m_scanned"
    /\ UNCHANGED <<uniq, issued, openedBy, closeCount, lastOp, lib>>
    /\ UNCHANGED mainDeviceVars

\* if (hdk_path.empty()) { std::cerr << ...; std::cin.ignore(); the message
\* is written and main waits for a character of standard input.
MainNoTracker ==
    /\ pc = "m_scanned"
    /\ prog.hdk_path = ""
    /\ pc' = "m_waiting"
    /\ UNCHANGED <<uniq, issued, openedBy, closeCount, lastOp, lib, en, prog>>
    /\ UNCHANGED mainDeviceVars

\* std::cin.ignore() returns (enter was pressed, or the input has ended):
\* return -1; }, which destroys lib.
MainNoTrackerReturn ==
    /\ pc = "m_waiting"
    /\ lib' = Library_dtor(lib)
    /\ prog' = [prog EXCEPT !.ret = "-1",
                            !.calls = @ \o [i \in 1..(lib'.exits - lib.exits) |->
                                               Call("hid_exit", <<>>)]]
    /\ pc' = "done"
    /\ UNCHANGED <<uniq, issued, openedBy, closeCount, lastOp, en>>
    /\ UNCHANGED mainDeviceVars

\* auto dev = hidapi::UniqueDevice{hdk_path};
MainOpen ==
    /\ pc = "m_scanned"
    /\ prog.hdk_path # ""
    /\ \E r \in hid_open_path_attached(prog.hdk_path) :
        /\ uniq' = [uniq EXCEPT ![1] = [alive |-> TRUE, dev_ |-> r, moved |-> FALSE]]
        /\ Issue(r, "unique")
        /\ lastOp' = [Op("UniqueOpenPath", 1, 0, r, NULL, FALSE, <<>>)
                          EXCEPT !.arg = <<prog.hdk_path>>]
        /\ prog' = [prog EXCEPT !.calls = Append(@, Call("hid_open_path", <<prog.hdk_path>>))]
    /\ pc' = "m_opened"
    /\ UNCHANGED <<closeCount, lib, en>>
    /\ UNCHANGED mainDeviceVars

\* hid_set_nonblocking(dev.get(), 0); on a null handle the native call has
\* no defined behaviour: it returns, or the process dies.
MainSetNonblocking ==
    /\ pc = "m_opened"
    /\ prog' = [prog EXCEPT !.calls = Append(@, Call("hid_set_nonblocking",
                                                     <<UniqueDevice_get(1), 0>>))]
    /\ pc' \in IF UniqueDevice_get(1) = NULL THEN {"m_blocking", "crashed"} ELSE {"m_blocking"}
    /\ UNCHANGED <<uniq, issued, openedBy, closeCount, lastOp, lib, en>>
    /\ UNCHANGED mainDeviceVars

\* return 0; dev, then lib are destroyed.
MainReturn ==
    /\ pc = "m_blocking"
    /\ LET closes == DeviceUniquePtr_release(uniq[1].dev_) IN
        /\ uniq' = [uniq EXCEPT ![1] = DeadU]
        /\ closeCount' = RecordCloses(closes)
        /\ lastOp' = [Op("UniqueDestroy", 1, 0, NULL, uniq[1].dev_, TRUE, closes)
                          EXCEPT !.moved = uniq[1].moved]
        /\ lib' = Library_dtor(lib)
        /\ prog' = [prog EXCEPT !.ret = "0",
                                !.calls = @ \o [i \in 1..Len(closes) |->
                                                   Call("hid_close", <<closes[i]>>)]
                                            \o [i \in 1..(lib'.exits - lib.exits) |->
                                                   Call("hid_exit", <<>>)]]
    /\ pc' = "done"
    /\ UNCHANGED <<issued, openedBy, en>>
    /\ UNCHANGED mainDeviceVars

MainInit ==
    /\ NoObjects
    /\ build \in Builds
    /\ pc = "main"

MainNext ==
    \/ MainLibrary
    \/ MainEnumerate
    \/ MainLoopStep
    \/ MainLoopEnd
    \/ MainNoTracker
    \/ MainNoTrackerReturn
    \/ MainOpen
    \/ MainSetNonblocking
    \/ MainReturn

SpecMain == MainInit /\ [][MainNext]_vars

\* C19 (as claimed): once the scan of main has ended, hdk_path is the path
\* of the first descriptor of the chain with the ids 0x1532/0x0B00 (empty
\* when there is none), and never the path of a descriptor with other ids.
C19_ScanSelectsFirstMatch ==
    (pc \in {"m_scanned", "m_waiting", "m_opened", "m_blocking", "crashed"}
        \/ (pc = "done" /\ prog.filter # <<>>)) =>
        LET hdks == {i \in 1..Len(en.chain) : IsHDK(en.chain[i])} IN
        /\ hdks = {} => prog.hdk_path = ""
        /\ hdks # {} =>
              prog.hdk_path = en.chain[CHOOSE i \in hdks : \A j \in hdks : i <= j].path
        /\ \A i \in 1..Len(en.chain) : ~IsHDK(en.chain[i]) => prog.hdk_path # en.chain[i].path

\* The positions in the log of calls c at which native function fn is called.
CallsOf(c, fn) == {i \in 1..Len(c) : c[i].fn = fn}

\* The native functions called, in order.
FnsOf(c) == [i \in 1..Len(c) |-> c[i].fn]

\* C21: in every run of main the native calls are ordered. hid_init is the
\* first call and is made once; hid_enumerate follows it; hdk_path is only
\* assigned while the chain is not yet freed, and the chain is freed before
\* hid_open_path is called; a handle that was opened is closed before
\* hid_exit; hid_exit is called once and is the last native call, both when
\* main returns -1 (no tracker) and when it returns 0.
C21_NativeCallOrder ==
    /\ [](LET c == prog.calls IN
          /\ Len(c) >= 1 => c[1].fn = "hid_init"
          /\ Cardinality(CallsOf(c, "hid_init")) = (IF pc = "main" THEN 0 ELSE 1)
          /\ \A i \in CallsOf(c, "hid_enumerate") : \E j \in CallsOf(c, "hid_init") : j < i
          /\ \A i \in CallsOf(c, "hid_open_path") :
                /\ \E j \in CallsOf(c, "hid_free_enumeration") : j < i
                /\ \A j \in CallsOf(c, "hid_free_enumeration") : j < i
          /\ \A i \in CallsOf(c, "hid_close") : \A j \in CallsOf(c, "hid_exit") : i < j
          /\ Cardinality(CallsOf(c, "hid_exit")) <= 1
          /\ \A j \in CallsOf(c, "hid_exit") : j = Len(c)
          /\ pc = "done" =>
                /\ prog.ret \in {"-1", "0"}
                /\ Cardinality(CallsOf(c, "hid_exit")) = 1
                /\ c[Len(c)].fn = "hid_exit"
                /\ \A h \in Handles : openedBy[h] # "none" =>
                      Cardinality({i \in CallsOf(c, "hid_close") : c[i].arg = <<h>>}) = 1)
    /\ [][prog'.hdk_path # prog.hdk_path =>
              /\ en.alive /\ en'.alive
              /\ CallsOf(prog'.calls, "hid_free_enumeration") = {}]_vars

\* main has returned 0 after opening the tracker: the seven native calls of
\* the run, in their order.
C21_Witness ==
    /\ pc = "done" /\ prog.ret = "0"
    /\ prog.hdk_path = HDK_PATH
    /\ closeCount[1] = 1
    /\ FnsOf(prog.calls) = <<"hid_init", "hid_enumerate", "hid_free_enumeration",
                             "hid_open_path", "hid_set_nonblocking", "hid_close", "hid_exit">>

\* C22 (as claimed): main checks the handle it opened before using it: when
\* hid_open_path returned null, no native operation on the handle
\* (hid_set_nonblocking, hid_read) is called with the null handle.
C22_MainChecksValidity ==
    \A i \in CallsOf(prog.calls, "hid_set_nonblocking") \cup CallsOf(prog.calls, "hid_read") :
        prog.calls[i].arg[1] # NULL


====
